---------------------------- MODULE Spec2Model ----------------------------
(***************************************************************************)
(* A model of the MIDI pass-through utility: the port registry             *)
(* (midi_engine/midi_io.py, class MidiIO) and the pass-through engine      *)
(* (midi_engine/engine.py, class Engine).                                  *)
(*                                                                         *)
(* Device handles returned by mido.open_input / mido.open_output are       *)
(* records kept in the sequence `handles`; a handle is named by its index. *)
(* The library is modelled by its documented behaviour: open raises for a  *)
(* port that cannot be opened, close and send may raise, receive() of a    *)
(* MultiPort waits until one of its ports holds a message, iter_pending()  *)
(* yields what a port holds without waiting.                               *)
(***************************************************************************)
EXTENDS Naturals, Sequences, FiniteSets

(***************************************************************************)
(* Bounds of the model.                                                    *)
(***************************************************************************)
\* handles opened by the registry calls of one behaviour
MaxHandles == 3
\* messages the devices produce in one behaviour
MaxMsgs == 2
\* send_event calls made directly on the registry in one behaviour
MaxSends == 1
\* loop threads created in one behaviour
MaxThreads == 2
\* the longest list of port names a Config holds
MaxCfgLen == 1
\* signals delivered to one process
MaxSignals == 2
\* port selections the user makes in one run of the program
MaxSelects == 1
\* events put on the queue of the TUI in one behaviour
MaxPush == 302
\* events waiting on the queue of the TUI
MaxQueued == 2

InNames == {"A", "B"}
OutNames == {"O", "P"}

VARIABLES
    handles,        \* every device handle ever opened, in order of opening
    input_ports,    \* MidiIO.input_ports: handle ids
    output_ports,   \* MidiIO.output_ports: handle ids
    multi_in,       \* MidiIO.multi_in: None or a MultiPort over handle ids
    nmsg,           \* messages produced by the devices so far
    nsend,          \* direct send_event calls so far
    last,           \* the registry call that ended last, with its arguments
                    \* and result (history)
    _running,       \* Engine._running
    _thread,        \* Engine._thread: 0 for None, else the id of a loop thread
    threads,        \* the loop threads ever created, each running Engine._run
    callers,        \* the threads calling Engine.start / Engine.stop
    disk,           \* the files of the configuration directory, by name
    cfg,            \* the Config object of the process
    save,           \* the save_config call in progress: its place and locals
    loaded,         \* what the last load_config call did (history)
    saved,          \* the Config of the last save_config that completed
                    \* (history): <<>> before the first
    main,           \* the main thread: its stack of frames, how the
                    \* process ended, and what shutdown did (history)
    event_q,        \* event_q of main(): the events on_event has put
    origin,         \* the name of the port each message arrived on, by
                    \* message (history)
    log,            \* the children of the ListView "events" of the TUI
    ui              \* the presentation thread inside a registry call

regVars == <<handles, input_ports, output_ports, multi_in>>
engVars == <<_running, _thread, threads, callers>>
cfgVars == <<disk, cfg, save, loaded, saved>>
tuiVars == <<event_q, origin, log, ui>>
appVars == <<cfgVars, main, tuiVars>>
vars == <<handles, input_ports, output_ports, multi_in, nmsg, nsend, last,
          _running, _thread, threads, callers, appVars>>

(***************************************************************************)
(* Values.                                                                 *)
(***************************************************************************)
Range(s) == {s[i] : i \in 1..Len(s)}

\* sequences over S without repetition, of length at most 2
NameLists(S) ==
    {<<>>} \cup {<<a>> : a \in S}
           \cup {p \in S \X S : p[1] # p[2]}

None == [none |-> TRUE, ports |-> <<>>]

MultiPort(ports_list) == [none |-> FALSE, ports |-> ports_list]

\* the handle mido.open_input(n) / mido.open_output(n) returns
NewHandle(n, d) ==
    [name |-> n, dir |-> d, closed |-> FALSE, closeCalls |-> 0,
     pending |-> <<>>, sent |-> <<>>]

\* MidiEvent(timestamp, message, port_name); the timestamp is not modelled
MidiEvent(m, pn) == [message |-> m, port_name |-> pn]

NoName == "None"

(***************************************************************************)
(* close_inputs / close_outputs                                            *)
(***************************************************************************)
\* p.close(): a close that raises leaves the device handle not closed
ClosePort(h, id, raises) ==
    [h EXCEPT ![id].closeCalls = @ + 1,
              ![id].closed = IF raises THEN @ ELSE TRUE]

\* for p in ports: try: p.close()  except Exception: pass
RECURSIVE CloseEach(_, _, _)
CloseEach(h, ports, raising) ==
    IF ports = <<>> THEN h
    ELSE CloseEach(ClosePort(h, Head(ports), Head(ports) \in raising),
                   Tail(ports), raising)

\* the same loop without the try/except: the first raising close ends it
RECURSIVE CloseEachUnguarded(_, _, _)
CloseEachUnguarded(h, ports, raising) ==
    IF ports = <<>> THEN h
    ELSE IF Head(ports) \in raising
         THEN ClosePort(h, Head(ports), TRUE)
         ELSE CloseEachUnguarded(ClosePort(h, Head(ports), FALSE),
                                 Tail(ports), raising)

\* close_inputs without the try/except: a raising close leaves the call
\* before the lists are reset
close_inputs_unguarded(h, ip, raising) ==
    IF Range(ip) \cap raising = {}
    THEN [handles |-> CloseEach(h, ip, raising), input_ports |-> <<>>,
          multi_in |-> None, raised |-> FALSE]
    ELSE [handles |-> CloseEachUnguarded(h, ip, raising), input_ports |-> ip,
          multi_in |-> MultiPort(ip), raised |-> TRUE]

close_inputs(h, ip, raising) ==
    [handles |-> CloseEach(h, ip, raising), input_ports |-> <<>>,
     multi_in |-> None, raised |-> FALSE]

close_outputs(h, op, raising) ==
    [handles |-> CloseEach(h, op, raising), output_ports |-> <<>>,
     raised |-> FALSE]

(***************************************************************************)
(* open_inputs / open_outputs                                              *)
(***************************************************************************)
\* the position of the first name mido cannot open, 0 when all open
RECURSIVE FirstFailure(_, _, _)
FirstFailure(names, openable, i) ==
    IF i > Len(names) THEN 0
    ELSE IF names[i] \notin openable THEN i
    ELSE FirstFailure(names, openable, i + 1)

\* for n in names: ports_list.append(mido.open_input(n))
\* the handles opened before the loop ends, normally or by the first raise
OpenedNames(names, openable) ==
    LET k == FirstFailure(names, openable, 1)
    IN IF k = 0 THEN names ELSE SubSeq(names, 1, k - 1)

OpenEach(h, names, d) ==
    h \o [i \in 1..Len(names) |-> NewHandle(names[i], d)]

NewIds(h, names) == [i \in 1..Len(names) |-> Len(h) + i]

open_inputs(h, ip, names, openable, raising) ==
    LET c == close_inputs(h, ip, raising)
        opened == OpenedNames(names, openable)
        ports_list == NewIds(c.handles, opened)
        h2 == OpenEach(c.handles, opened, "in")
    IN IF Len(opened) = Len(names)
       THEN [handles |-> h2, input_ports |-> ports_list,
             multi_in |-> IF ports_list # <<>> THEN MultiPort(ports_list)
                          ELSE None,
             raised |-> FALSE]
       ELSE \* mido.open_input raised: the assignments after the loop are
            \* not reached, ports_list is dropped
            [handles |-> h2, input_ports |-> c.input_ports,
             multi_in |-> c.multi_in, raised |-> TRUE]

open_outputs(h, op, names, openable, raising) ==
    LET c == close_outputs(h, op, raising)
        opened == OpenedNames(names, openable)
        outs == NewIds(c.handles, opened)
        h2 == OpenEach(c.handles, opened, "out")
    IN IF Len(opened) = Len(names)
       THEN [handles |-> h2, output_ports |-> outs, raised |-> FALSE]
       ELSE [handles |-> h2, output_ports |-> c.output_ports, raised |-> TRUE]

(***************************************************************************)
(* read_events                                                             *)
(***************************************************************************)
\* for msg in p.iter_pending(): events.append(MidiEvent(.., msg, p.name))
\* a closed port yields nothing
DrainPort(h, id, events) ==
    IF h[id].closed THEN [handles |-> h, events |-> events]
    ELSE [handles |-> [h EXCEPT ![id].pending = <<>>],
          events |-> events \o [i \in 1..Len(h[id].pending) |->
                                  MidiEvent(h[id].pending[i], h[id].name)]]

\* for p in self.input_ports: (drain p)
RECURSIVE Drain(_, _, _)
Drain(h, ports, events) ==
    IF ports = <<>> THEN [handles |-> h, events |-> events]
    ELSE LET d == DrainPort(h, Head(ports), events)
         IN Drain(d.handles, Tail(ports), d.events)

\* the ports of a MultiPort on which receive() finds a message
Ready(h, mi) ==
    {id \in Range(mi.ports) : ~h[id].closed /\ h[id].pending # <<>>}

\* read_events with the test of the flag inverted and without its two early
\* returns
read_events_unguarded(h, ip, mi, non_blocking, pick) ==
    IF ~non_blocking
    THEN [status |-> "return", handles |-> Drain(h, ip, <<>>).handles,
          events |-> Drain(h, ip, <<>>).events]
    ELSE IF mi.none
    THEN [status |-> "raise", handles |-> h, events |-> <<>>]
    ELSE [status |-> "block", handles |-> h, events |-> <<>>]

\* the blocking branch without the drain that follows receive()
read_events_nodrain(h, ip, mi, non_blocking, pick) ==
    IF ip = <<>> \/ (~non_blocking /\ mi.none)
    THEN [status |-> "return", handles |-> h, events |-> <<>>]
    ELSE IF non_blocking
    THEN [status |-> "return", handles |-> Drain(h, ip, <<>>).handles,
          events |-> Drain(h, ip, <<>>).events]
    ELSE IF pick \notin Ready(h, mi)
    THEN [status |-> "block", handles |-> h, events |-> <<>>]
    ELSE [status |-> "return",
          handles |-> [h EXCEPT ![pick].pending = Tail(@)],
          events |-> <<MidiEvent(Head(h[pick].pending), NoName)>>]

\* read_events(non_blocking); pick is the port whose message receive()
\* returns (the MultiPort looks at its ports in a shuffled order), 0 when
\* receive() is not called or finds nothing
read_events(h, ip, mi, non_blocking, pick) ==
    IF ip = <<>>
    THEN [status |-> "return", handles |-> h, events |-> <<>>]
    ELSE IF non_blocking
    THEN [status |-> "return", handles |-> Drain(h, ip, <<>>).handles,
          events |-> Drain(h, ip, <<>>).events]
    ELSE IF mi.none
    THEN [status |-> "return", handles |-> h, events |-> <<>>]
    ELSE IF pick \notin Ready(h, mi)
    THEN \* self.multi_in.receive() waits
         [status |-> "block", handles |-> h, events |-> <<>>]
    ELSE LET msg == Head(h[pick].pending)
             h1 == [h EXCEPT ![pick].pending = Tail(@)]
             d == Drain(h1, ip, <<MidiEvent(msg, NoName)>>)
         IN [status |-> "return", handles |-> d.handles, events |-> d.events]

(***************************************************************************)
(* send_event                                                              *)
(***************************************************************************)
\* o.send(event.message): raises on a closed port or a failing device
SendPort(h, id, msg, raises) ==
    IF raises \/ h[id].closed THEN h
    ELSE [h EXCEPT ![id].sent = Append(@, msg)]

\* for o in self.output_ports: try: o.send(..) except Exception: pass
RECURSIVE SendEach(_, _, _, _)
SendEach(h, ports, msg, raising) ==
    IF ports = <<>> THEN h
    ELSE SendEach(SendPort(h, Head(ports), msg, Head(ports) \in raising),
                  Tail(ports), msg, raising)

\* the same loop without the try/except
RECURSIVE SendEachUnguarded(_, _, _, _)
SendEachUnguarded(h, ports, msg, raising) ==
    IF ports = <<>> THEN h
    ELSE IF Head(ports) \in raising \/ h[Head(ports)].closed THEN h
    ELSE SendEachUnguarded(SendPort(h, Head(ports), msg, FALSE),
                           Tail(ports), msg, raising)

\* send_event without the try/except
send_event_unguarded(h, op, event, raising) ==
    [handles |-> SendEachUnguarded(h, op, event.message, raising),
     raised |-> \E id \in Range(op) : id \in raising \/ h[id].closed]

send_event(h, op, event, raising) ==
    [handles |-> SendEach(h, op, event.message, raising), raised |-> FALSE]

\* close(): close_inputs(); close_outputs()
close(h, ip, op, raising) ==
    LET ci == close_inputs(h, ip, raising)
        co == close_outputs(ci.handles, op, raising)
    IN [handles |-> co.handles, input_ports |-> ci.input_ports,
        multi_in |-> ci.multi_in, output_ports |-> co.output_ports,
        raised |-> ci.raised \/ co.raised]

(***************************************************************************)
(* The registry used from one thread: any sequence of its operations, with *)
(* devices that produce messages and that may fail to open, close or send. *)
(***************************************************************************)
NoCall ==
    [op |-> "none", names |-> <<>>, openable |-> {}, raising |-> {},
     raised |-> FALSE, prev_in |-> <<>>, prev_out |-> <<>>,
     non_blocking |-> FALSE, status |-> "return", events |-> <<>>,
     pending_before |-> {}, message |-> 0]

\* the messages waiting on the given ports
PendingOn(h, ports) ==
    UNION {Range(h[id].pending) : id \in {x \in Range(ports) : ~h[x].closed}}

(***************************************************************************)
(* The configuration store (config.py).  A file holds YAML text, kept here *)
(* as its sequence of lines: a key line opens a mapping entry at an        *)
(* indentation, an item line is one element of a block list, a scalar or a *)
(* junk line stands for a file that holds a bare word or no YAML at all.   *)
(* Python values are tagged with their type.                               *)
(***************************************************************************)
Null == [t |-> "null", v |-> <<>>]

Scalar(type, s) == [t |-> type, v |-> s]

Str(s) == Scalar("str", s)

List(items) == [t |-> "list", v |-> items]

Map(f) == [t |-> "map", v |-> f]

EmptyMap == Map(<<>>)

\* dict.get(key, default)
Get(m, key, default) == IF key \in DOMAIN m.v THEN m.v[key] ELSE default

\* "key:" followed by a block, or "key: []"
Key(ind, k, style) == [kind |-> "key", ind |-> ind, text |-> k, style |-> style]

\* "- text" or "- 'text'"
Item(style, s) == [kind |-> "item", ind |-> 2, text |-> s, style |-> style]

\* a line that is no YAML
Junk == [kind |-> "junk", ind |-> 0, text |-> "{", style |-> "plain"]

\* a document that is one plain word
Word == [kind |-> "scalar", ind |-> 0, text |-> "midi", style |-> "plain"]

\* the type the YAML resolver gives a plain scalar
Resolve(s) ==
    CASE s \in {"", "~", "null"} -> "null"
      [] s \in {"true", "false", "yes", "no", "on", "off"} -> "bool"
      [] s \in {"0", "1", "2"} -> "int"
      [] OTHER -> "str"

\* a dumper that never quotes
StyleOfPlain(s) == "plain"

\* the dumper quotes a string that would not be read back as a string
StyleOf(s) == IF Resolve(s) = "str" THEN "plain" ELSE "quoted"

DumpList(k, l) ==
    IF l = <<>> THEN << Key(1, k, "empty") >>
    ELSE << Key(1, k, "block") >>
         \o [i \in 1..Len(l) |-> Item(StyleOf(l[i]), l[i])]

\* yaml.safe_dump({"midi": {"inputs": ..., "outputs": ...}}): keys sorted,
\* block style
safe_dump(c) ==
    << Key(0, "midi", "block") >> \o DumpList("inputs", c.inputs)
                                  \o DumpList("outputs", c.outputs)

\* the value of an item line
Construct(line) ==
    IF line.style = "quoted" THEN Str(line.text)
    ELSE Scalar(Resolve(line.text), line.text)

\* the first line after line i that ends the block of a key indented by ind
RECURSIVE BlockEnd(_, _, _)
BlockEnd(lines, i, ind) ==
    IF i > Len(lines) \/ lines[i].ind <= ind THEN i
    ELSE BlockEnd(lines, i + 1, ind)

Raised == [raised |-> TRUE, v |-> Null]

Parsed(value) == [raised |-> FALSE, v |-> value]

\* the value of a block of lines indented by ind: nothing, a block list or
\* a block mapping
RECURSIVE ParseValue(_, _), ParseEntries(_, _, _)
ParseValue(lines, ind) ==
    IF lines = <<>> THEN Parsed(Null)
    ELSE IF \A i \in 1..Len(lines) : lines[i].kind = "item"
    THEN Parsed(List([i \in 1..Len(lines) |-> Construct(lines[i])]))
    ELSE IF lines[1].kind = "key" /\ lines[1].ind = ind
    THEN ParseEntries(lines, ind, <<>>)
    ELSE Raised

\* the entries of a block mapping, added to those of f
ParseEntries(lines, ind, f) ==
    IF lines = <<>> THEN Parsed(Map(f))
    ELSE IF lines[1].kind # "key" \/ lines[1].ind # ind THEN Raised
    ELSE LET e == BlockEnd(lines, 2, ind)
             block == SubSeq(lines, 2, e - 1)
             rest == SubSeq(lines, e, Len(lines))
             k == lines[1].text
             val == IF lines[1].style = "empty"
                    THEN IF block = <<>> THEN Parsed(List(<<>>)) ELSE Raised
                    ELSE ParseValue(block, ind + 1)
             entries == [x \in DOMAIN f \cup {k} |->
                           IF x = k THEN val.v ELSE f[x]]
         IN  IF val.raised THEN Raised
             ELSE ParseEntries(rest, ind, entries)

\* yaml.safe_load(text)
safe_load(lines) ==
    IF \E i \in 1..Len(lines) : lines[i].kind = "junk" THEN Raised
    ELSE IF \E i \in 1..Len(lines) : lines[i].kind = "scalar"
    THEN IF Len(lines) = 1 THEN Parsed(Str(lines[1].text)) ELSE Raised
    ELSE ParseValue(lines, 0)

\* a file: absent, unreadable (a directory, no permission), or holding text
NoFile == [exists |-> FALSE, readable |-> FALSE, text |-> <<>>]

Unreadable == [exists |-> TRUE, readable |-> FALSE, text |-> <<>>]

TextFile(lines) == [exists |-> TRUE, readable |-> TRUE, text |-> lines]

\* Config(): both lists empty
ZeroConfig == [inputs |-> List(<<>>), outputs |-> List(<<>>)]

\* the Config whose lists hold the strings of c
Py(c) == [inputs |-> List([i \in 1..Len(c.inputs) |-> Str(c.inputs[i])]),
          outputs |-> List([i \in 1..Len(c.outputs) |-> Str(c.outputs[i])])]

\* load_config(path) on a file f: the Config returned, or raised
load_config(f) ==
    IF ~f.exists THEN [raised |-> FALSE, cfg |-> ZeroConfig]
    ELSE IF ~f.readable THEN [raised |-> TRUE, cfg |-> ZeroConfig]
    ELSE LET r == safe_load(f.text)
             data == IF r.v.t = "null" THEN EmptyMap ELSE r.v
             midi == Get(data, "midi", EmptyMap)
         IN  IF r.raised \/ data.t # "map" \/ midi.t # "map"
             THEN [raised |-> TRUE, cfg |-> ZeroConfig]
             ELSE [raised |-> FALSE,
                   cfg |-> [inputs |-> Get(midi, "inputs", List(<<>>)),
                            outputs |-> Get(midi, "outputs", List(<<>>))]]

\* DEFAULT_PATH, and the temporary file save_config writes beside it
ConfigPath == "config.yaml"

TmpPath == "config.tmp"

\* a with_suffix that gives the path back
with_suffix_same(p) == p

\* p.with_suffix(".tmp")
with_suffix(p) == TmpPath

\* the port names a Config may hold: a plain word, and a word the YAML
\* resolver reads as a number
CfgNames == {"A", "1"}

CfgLists == {l \in NameLists(CfgNames) : Len(l) <= MaxCfgLen}

\* the Config objects of the process: lists of port names
Configs == [inputs : CfgLists, outputs : {<<>>, <<"O">>}]

\* what the file may hold before the program first saves: nothing, or what
\* somebody put there
UserFiles ==
    {NoFile, Unreadable, TextFile(<<>>), TextFile(<< Junk >>),
     TextFile(<< Word >>), TextFile(<< Key(0, "midi", "block") >>),
     TextFile(<< Key(0, "midi", "block"), Key(1, "inputs", "block") >>),
     TextFile(<< Key(0, "other", "empty") >>)}

\* no save_config call in progress; at: where the last call was when the
\* process died, "" if it returned (history)
IdleSave ==
    [pc |-> "idle", text |-> <<>>, i |-> 0, prev |-> NoFile, at |-> "",
     of |-> [inputs |-> <<>>, outputs |-> <<>>]]

NoLoad == [op |-> "", file |-> NoFile, raised |-> FALSE, cfg |-> ZeroConfig,
           of |-> <<>>]

\* before main() is called; exc: the exception the finally block was
\* entered with, status: the exit status, log: the shutdown steps performed
\* (history), nsig: the signals delivered, nsel: the selections made
NoMain ==
    [frames |-> <<>>, exc |-> "", status |-> "", log |-> <<>>, nsig |-> 0,
     nsel |-> 0]

\* the presentation thread outside every registry call
IdleUi == [pc |-> "idle", names |-> <<>>, ports_list |-> <<>>, save |-> FALSE]

\* queue.Queue(), an empty ListView, no message yet
InitTui ==
    /\ event_q = <<>>
    /\ origin = <<>>
    /\ log = <<>>
    /\ ui = IdleUi

\* the state of the store when no file was ever written
InitApp ==
    /\ disk = [f \in {ConfigPath, TmpPath} |-> NoFile]
    /\ cfg = [inputs |-> <<>>, outputs |-> <<>>]
    /\ save = IdleSave
    /\ loaded = NoLoad
    /\ saved = <<>>
    /\ main = NoMain
    /\ InitTui

\* Engine.__init__, with the threads of C about to call start and stop
InitEngine(C) ==
    /\ _running = FALSE
    /\ _thread = 0
    /\ threads = <<>>
    /\ callers = [c \in C |->
                     [pc |-> "idle", stale |-> FALSE, midBatch |-> {},
                      join |-> ""]]

\* main() is the one thread that calls start and stop
MainThread == {1}

InitRegistry ==
    /\ handles = <<>>
    /\ input_ports = <<>>
    /\ output_ports = <<>>
    /\ multi_in = None
    /\ nmsg = 0
    /\ nsend = 0
    /\ last = NoCall
    /\ InitEngine(MainThread)
    /\ InitApp

OpenInputs ==
    \E names \in NameLists(InNames), raising \in SUBSET Range(input_ports) :
      \E openable \in SUBSET Range(names) :
        LET r == open_inputs(handles, input_ports, names, openable, raising)
        IN /\ Len(handles) + Len(names) <= MaxHandles
           /\ handles' = r.handles
           /\ input_ports' = r.input_ports
           /\ multi_in' = r.multi_in
           /\ last' = [NoCall EXCEPT !.op = "open_inputs", !.names = names,
                          !.openable = openable, !.raising = raising,
                          !.raised = r.raised, !.prev_in = input_ports,
                          !.prev_out = output_ports]
           /\ UNCHANGED <<output_ports, nmsg, nsend>>
           /\ UNCHANGED <<engVars, appVars>>

OpenOutputs ==
    \E names \in NameLists(OutNames), raising \in SUBSET Range(output_ports) :
      \E openable \in SUBSET Range(names) :
        LET r == open_outputs(handles, output_ports, names, openable, raising)
        IN /\ Len(handles) + Len(names) <= MaxHandles
           /\ handles' = r.handles
           /\ output_ports' = r.output_ports
           /\ last' = [NoCall EXCEPT !.op = "open_outputs", !.names = names,
                          !.openable = openable, !.raising = raising,
                          !.raised = r.raised, !.prev_in = input_ports,
                          !.prev_out = output_ports]
           /\ UNCHANGED <<input_ports, multi_in, nmsg, nsend>>
           /\ UNCHANGED <<engVars, appVars>>

CloseInputs ==
    \E raising \in SUBSET Range(input_ports) :
        LET r == close_inputs(handles, input_ports, raising)
        IN /\ handles' = r.handles
           /\ input_ports' = r.input_ports
           /\ multi_in' = r.multi_in
           /\ last' = [NoCall EXCEPT !.op = "close_inputs",
                          !.raising = raising, !.raised = r.raised,
                          !.prev_in = input_ports, !.prev_out = output_ports]
           /\ UNCHANGED <<output_ports, nmsg, nsend>>
           /\ UNCHANGED <<engVars, appVars>>

CloseOutputs ==
    \E raising \in SUBSET Range(output_ports) :
        LET r == close_outputs(handles, output_ports, raising)
        IN /\ handles' = r.handles
           /\ output_ports' = r.output_ports
           /\ last' = [NoCall EXCEPT !.op = "close_outputs",
                          !.raising = raising, !.raised = r.raised,
                          !.prev_in = input_ports, !.prev_out = output_ports]
           /\ UNCHANGED <<input_ports, multi_in, nmsg, nsend>>
           /\ UNCHANGED <<engVars, appVars>>

Close ==
    \E raising \in SUBSET (Range(input_ports) \cup Range(output_ports)) :
        LET r == close(handles, input_ports, output_ports, raising)
        IN /\ handles' = r.handles
           /\ input_ports' = r.input_ports
           /\ multi_in' = r.multi_in
           /\ output_ports' = r.output_ports
           /\ last' = [NoCall EXCEPT !.op = "close",
                          !.raising = raising, !.raised = r.raised,
                          !.prev_in = input_ports, !.prev_out = output_ports]
           /\ UNCHANGED <<nmsg, nsend>>
           /\ UNCHANGED <<engVars, appVars>>

\* a blocking call that has to wait returns once a device has produced a
\* message: it is a step only then
ReadEvents ==
    \E non_blocking \in BOOLEAN, pick \in Ready(handles, multi_in) \cup {0} :
        LET r == read_events(handles, input_ports, multi_in, non_blocking,
                             pick)
        IN /\ pick = 0 => (non_blocking \/ Ready(handles, multi_in) = {}
                              \/ input_ports = <<>>)
           /\ non_blocking \/ r.status # "block"
           /\ handles' = r.handles
           /\ last' = [NoCall EXCEPT !.op = "read_events",
                          !.non_blocking = non_blocking,
                          !.status = r.status, !.events = r.events,
                          !.prev_in = input_ports, !.prev_out = output_ports,
                          !.pending_before = PendingOn(handles, input_ports)]
           /\ UNCHANGED <<input_ports, output_ports, multi_in, nmsg, nsend>>
           /\ UNCHANGED <<engVars, appVars>>

SendEvent ==
    \E m \in 1..nmsg, raising \in SUBSET Range(output_ports) :
        LET r == send_event(handles, output_ports, MidiEvent(m, NoName),
                            raising)
        IN /\ nsend < MaxSends
           /\ nsend' = nsend + 1
           /\ handles' = r.handles
           /\ last' = [NoCall EXCEPT !.op = "send_event", !.message = m,
                          !.raising = raising, !.raised = r.raised,
                          !.prev_in = input_ports, !.prev_out = output_ports]
           /\ UNCHANGED <<input_ports, output_ports, multi_in, nmsg>>
           /\ UNCHANGED <<engVars, appVars>>

\* a device delivers its next message to a handle that is open on it
Inject ==
    \E id \in DOMAIN handles :
        /\ nmsg < MaxMsgs
        /\ handles[id].dir = "in"
        /\ ~handles[id].closed
        /\ nmsg' = nmsg + 1
        /\ handles' = [handles EXCEPT ![id].pending = Append(@, nmsg + 1)]
        /\ UNCHANGED <<input_ports, output_ports, multi_in, nsend, last>>
        /\ UNCHANGED <<engVars, appVars>>

NextRegistry ==
    \/ OpenInputs
    \/ OpenOutputs
    \/ CloseInputs
    \/ CloseOutputs
    \/ Close

SpecRegistry == InitRegistry /\ [][NextRegistry]_vars

(***************************************************************************)
(* The registry with the ports main() opens from the configuration         *)
(* (main.py, lines 26-30), reading and sending while devices produce       *)
(* messages.                                                               *)
(***************************************************************************)
\* if cfg.midi.inputs: midi.open_inputs(..); if cfg.midi.outputs: ..
OpenConfigured(ins, outs) ==
    LET oi == IF ins # <<>> THEN open_inputs(<<>>, <<>>, ins, Range(ins), {})
              ELSE [handles |-> <<>>, input_ports |-> <<>>,
                    multi_in |-> None, raised |-> FALSE]
        oo == IF outs # <<>>
              THEN open_outputs(oi.handles, <<>>, outs, Range(outs), {})
              ELSE [handles |-> oi.handles, output_ports |-> <<>>,
                    raised |-> FALSE]
    IN [handles |-> oo.handles, input_ports |-> oi.input_ports,
        multi_in |-> oi.multi_in, output_ports |-> oo.output_ports]

InitPorts ==
    /\ \E ins \in NameLists(InNames), outs \in NameLists(OutNames) :
          LET r == OpenConfigured(ins, outs)
          IN /\ handles = r.handles
             /\ input_ports = r.input_ports
             /\ multi_in = r.multi_in
             /\ output_ports = r.output_ports
    /\ nmsg = 0
    /\ nsend = 0
    /\ last = NoCall

InitIO ==
    /\ InitPorts
    /\ InitEngine(MainThread)
    /\ InitApp

NextIO ==
    \/ Inject
    \/ ReadEvents
    \/ SendEvent
    \/ CloseInputs
    \/ CloseOutputs

SpecIO == InitIO /\ [][NextIO]_vars

(***************************************************************************)
(* The pass-through engine (engine.py).  Engine.start and Engine.stop are  *)
(* called by the threads of Callers and take one step for each read or     *)
(* write of an attribute of the engine; every thread created by start runs *)
(* Engine._run.  The registry holds the ports main() opened.               *)
(***************************************************************************)
\* threading.Thread(target=self._run, daemon=True), not yet started.
\* events, i: the locals of _run; ret, fwd: what read_events returned to the
\* thread and what the thread handed to send_event (history); cbRaised: the
\* observer raised on every call so far; failed: the writes that raised;
\* sinceStop: no stop() began since the start() that made the thread began
\* (history); mi: the MultiPort whose receive() the thread is in.
\* A caller holds, beside its place in start() or stop(): stale, a stop()
\* began during its start(); midBatch, the threads that were inside a batch
\* when its stop() cleared the flag (history, kept until stop() returns);
\* join, how its last stop() ended (history): "none" without a join, "ended"
\* and "timeout" for the two ways join returns, "raised" for a join that
\* raised
NewThread ==
    [pc |-> "new", events |-> <<>>, i |-> 1, ret |-> <<>>, fwd |-> <<>>,
     cbRaised |-> TRUE, failed |-> {}, sinceStop |-> TRUE, mi |-> None]

Threads == DOMAIN threads

Callers == DOMAIN callers

SetPc(c, pc) == [callers EXCEPT ![c].pc = pc]

\* the write failures the engine meets: the device of the first output may
\* fail on any write
Flaky(op) == IF op = <<>> THEN {{}} ELSE {{}, {op[1]}}

\* start(): if self._running: return
StartCall(c) ==
    /\ callers[c].pc = "idle"
    /\ callers' = IF _running THEN callers
                   ELSE [callers EXCEPT ![c].pc = "start_set",
                                        ![c].stale = FALSE]
    /\ UNCHANGED appVars
    /\ UNCHANGED <<_running, _thread, threads>>
    /\ UNCHANGED <<handles, input_ports, output_ports, multi_in, nmsg,
                   nsend, last>>

\* self._running = True
StartSet(c) ==
    /\ callers[c].pc = "start_set"
    /\ _running' = TRUE
    /\ callers' = SetPc(c, "start_new")
    /\ UNCHANGED appVars
    /\ UNCHANGED <<_thread, threads>>
    /\ UNCHANGED <<handles, input_ports, output_ports, multi_in, nmsg,
                   nsend, last>>

\* self._thread = threading.Thread(target=self._run, daemon=True)
StartNew(c) ==
    /\ callers[c].pc = "start_new"
    /\ Len(threads) < MaxThreads
    /\ threads' = Append(threads,
                         [NewThread EXCEPT !.sinceStop = ~callers[c].stale])
    /\ _thread' = Len(threads) + 1
    /\ callers' = SetPc(c, "start_thread")
    /\ UNCHANGED appVars
    /\ UNCHANGED _running
    /\ UNCHANGED <<handles, input_ports, output_ports, multi_in, nmsg,
                   nsend, last>>

\* self._thread.start(): starting a thread a second time raises
StartThread(c) ==
    /\ callers[c].pc = "start_thread"
    /\ threads' = IF threads[_thread].pc = "new"
                  THEN [threads EXCEPT ![_thread].pc = "while"]
                  ELSE threads
    /\ callers' = SetPc(c, "idle")
    /\ UNCHANGED appVars
    /\ UNCHANGED <<_running, _thread>>
    /\ UNCHANGED <<handles, input_ports, output_ports, multi_in, nmsg,
                   nsend, last>>

\* stop(): self._running = False
StopCall(c) ==
    /\ callers[c].pc = "idle"
    /\ _running' = FALSE
    /\ threads' = [t \in Threads |->
                     [threads[t] EXCEPT !.sinceStop = FALSE]]
    /\ callers' = [x \in Callers |->
                     IF x = c
                     THEN [callers[x] EXCEPT
                             !.pc = "stop_join",
                             !.midBatch = {t \in Threads : threads[t].pc
                                              \in {"callback", "send"}}]
                     ELSE [callers[x] EXCEPT !.stale = @ \/ callers[x].pc # "idle"]]
    /\ UNCHANGED appVars
    /\ UNCHANGED _thread
    /\ UNCHANGED <<handles, input_ports, output_ports, multi_in, nmsg,
                   nsend, last>>

\* self._thread.join(timeout=2.0): join returns when the thread has ended
\* or after the timeout, and raises on a thread that was never started
Join(t) ==
    CASE threads[t].pc = "new" -> "raised"
      [] threads[t].pc = "done" -> "ended"
      [] OTHER -> "timeout"

\* stop() that joins without testing self._thread
StopJoinUnguarded(c) ==
    /\ callers[c].pc = "stop_join"
    /\ callers' = [callers EXCEPT
                     ![c].pc = "idle", ![c].midBatch = {},
                     ![c].join = IF _thread = 0 THEN "raised"
                                 ELSE Join(_thread)]
    /\ UNCHANGED appVars
    /\ UNCHANGED <<_running, _thread, threads>>
    /\ UNCHANGED <<handles, input_ports, output_ports, multi_in, nmsg,
                   nsend, last>>

\* stop() that joins without a timeout
StopJoinUnbounded(c) ==
    /\ callers[c].pc = "stop_join"
    /\ _thread # 0 => threads[_thread].pc \in {"new", "done"}
    /\ callers' = [callers EXCEPT
                     ![c].pc = "idle", ![c].midBatch = {},
                     ![c].join = IF _thread = 0 THEN "none"
                                 ELSE Join(_thread)]
    /\ UNCHANGED appVars
    /\ UNCHANGED <<_running, _thread, threads>>
    /\ UNCHANGED <<handles, input_ports, output_ports, multi_in, nmsg,
                   nsend, last>>

\* if self._thread: self._thread.join(timeout=2.0)
StopJoin(c) ==
    /\ callers[c].pc = "stop_join"
    /\ callers' = [callers EXCEPT
                     ![c].pc = "idle", ![c].midBatch = {},
                     ![c].join = IF _thread = 0 THEN "none"
                                 ELSE Join(_thread)]
    /\ UNCHANGED appVars
    /\ UNCHANGED <<_running, _thread, threads>>
    /\ UNCHANGED <<handles, input_ports, output_ports, multi_in, nmsg,
                   nsend, last>>

\* _run: while self._running
LoopWhile(t) ==
    /\ threads[t].pc = "while"
    /\ threads' = [threads EXCEPT
                     ![t].pc = IF _running THEN "read" ELSE "done"]
    /\ UNCHANGED appVars
    /\ UNCHANGED <<_running, _thread, callers>>
    /\ UNCHANGED <<handles, input_ports, output_ports, multi_in, nmsg,
                   nsend, last>>

\* events = self.midi_io.read_events(non_blocking=False); for e in events
LoopRead(t) ==
    /\ threads[t].pc = "read"
    /\ \E pick \in Ready(handles, multi_in) \cup {0} :
          LET r == read_events(handles, input_ports, multi_in, FALSE, pick)
          IN /\ pick = 0 =>
                   (Ready(handles, multi_in) = {} \/ input_ports = <<>>)
             /\ r.status = "return"
             /\ handles' = r.handles
             /\ threads' = [threads EXCEPT
                   ![t].events = r.events,
                   ![t].i = 1,
                   ![t].ret = @ \o r.events,
                   ![t].pc = IF r.events = <<>> THEN "while"
                             ELSE "callback"]
    /\ UNCHANGED appVars
    /\ UNCHANGED <<_running, _thread, callers>>
    /\ UNCHANGED <<input_ports, output_ports, multi_in, nmsg, nsend, last>>

\* the same step when an exception of the observer is not caught: the
\* thread ends
LoopCallbackUnguarded(t) ==
    /\ threads[t].pc = "callback"
    /\ \E raises \in BOOLEAN :
          threads' = [threads EXCEPT
                        ![t].cbRaised = @ /\ raises,
                        ![t].pc = IF raises THEN "done" ELSE "send"]
    /\ UNCHANGED appVars
    /\ UNCHANGED <<_running, _thread, callers>>
    /\ UNCHANGED <<handles, input_ports, output_ports, multi_in, nmsg,
                   nsend, last>>

\* if self.event_callback: try: self.event_callback(e)
\*                          except Exception: pass
LoopCallback(t) ==
    /\ threads[t].pc = "callback"
    /\ \E raises \in BOOLEAN :
          threads' = [threads EXCEPT
                        ![t].cbRaised = @ /\ raises,
                        ![t].pc = "send"]
    /\ UNCHANGED appVars
    /\ UNCHANGED <<_running, _thread, callers>>
    /\ UNCHANGED <<handles, input_ports, output_ports, multi_in, nmsg,
                   nsend, last>>

\* the same step of a loop that looks at the running flag after each event
LoopSendStopAware(t) ==
    /\ threads[t].pc = "send"
    /\ \E raising \in Flaky(output_ports) :
          LET e == threads[t].events[threads[t].i]
              r == send_event(handles, output_ports, e, raising)
          IN /\ handles' = r.handles
             /\ threads' = [threads EXCEPT
                   ![t].fwd = Append(@, e),
                   ![t].failed = @ \cup {<<e.message, o>> : o \in raising},
                   ![t].i = IF threads[t].i = Len(threads[t].events)
                                \/ ~_running
                            THEN 1 ELSE @ + 1,
                   ![t].events = IF threads[t].i = Len(threads[t].events)
                                    \/ ~_running
                                 THEN <<>> ELSE @,
                   ![t].pc = IF threads[t].i = Len(threads[t].events)
                                \/ ~_running
                             THEN "while" ELSE "callback"]
    /\ UNCHANGED appVars
    /\ UNCHANGED <<_running, _thread, callers>>
    /\ UNCHANGED <<input_ports, output_ports, multi_in, nmsg, nsend, last>>

\* try: self.midi_io.send_event(e) except Exception: pass; next e
LoopSend(t) ==
    /\ threads[t].pc = "send"
    /\ \E raising \in Flaky(output_ports) :
          LET e == threads[t].events[threads[t].i]
              r == send_event(handles, output_ports, e, raising)
          IN /\ handles' = r.handles
             /\ threads' = [threads EXCEPT
                   ![t].fwd = Append(@, e),
                   ![t].failed = @ \cup {<<e.message, o>> : o \in raising},
                   ![t].i = IF threads[t].i = Len(threads[t].events)
                            THEN 1 ELSE @ + 1,
                   ![t].events = IF threads[t].i = Len(threads[t].events)
                                 THEN <<>> ELSE @,
                   ![t].pc = IF threads[t].i = Len(threads[t].events)
                             THEN "while" ELSE "callback"]
    /\ UNCHANGED appVars
    /\ UNCHANGED <<_running, _thread, callers>>
    /\ UNCHANGED <<input_ports, output_ports, multi_in, nmsg, nsend, last>>

Start == \E c \in Callers : StartCall(c) \/ StartSet(c) \/ StartNew(c)
                                \/ StartThread(c)

Stop == \E c \in Callers : StopCall(c) \/ StopJoin(c)

RunWhile == \E t \in Threads : LoopWhile(t)

RunRead == \E t \in Threads : LoopRead(t)

RunCallback == \E t \in Threads : LoopCallback(t)

RunSend == \E t \in Threads : LoopSend(t)

NextEngine ==
    \/ Start
    \/ Stop
    \/ RunWhile
    \/ RunRead
    \/ RunCallback
    \/ RunSend
    \/ Inject

\* the configurations the engine is run on: no input or two inputs, and two
\* outputs
InitEnginePorts ==
    /\ \E ins \in {<<>>, <<"A", "B">>}, outs \in {<<"O", "P">>} :
          LET r == OpenConfigured(ins, outs)
          IN /\ handles = r.handles
             /\ input_ports = r.input_ports
             /\ multi_in = r.multi_in
             /\ output_ports = r.output_ports
    /\ nmsg = 0
    /\ nsend = 0
    /\ last = NoCall
    /\ InitEngine(MainThread)
    /\ InitApp

SpecEngine == InitEnginePorts /\ [][NextEngine]_vars

\* the engine with two threads that call start and stop, on one input and
\* one output
InitStart ==
    /\ LET r == OpenConfigured(<<"A">>, <<"O">>)
       IN /\ handles = r.handles
          /\ input_ports = r.input_ports
          /\ multi_in = r.multi_in
          /\ output_ports = r.output_ports
    /\ nmsg = 0
    /\ nsend = 0
    /\ last = NoCall
    /\ InitEngine({1, 2})
    /\ InitApp

SpecStart == InitStart /\ [][NextEngine]_vars

(***************************************************************************)
(* Claims about the port registry.                                         *)
(***************************************************************************)
NamesOf(h, ports) == [i \in DOMAIN ports |-> h[ports[i]].name]

\* C3: open_inputs followed by open_outputs leaves exactly the requested
\* ports that were successfully opened marked open, in each direction, and a
\* repeated call first closes every previously open port of its direction,
\* with one close call for each of them.
C3_ReplaceExactly ==
    /\ last.op = "open_inputs" =>
          /\ NamesOf(handles, input_ports)
                = OpenedNames(last.names, last.openable)
          /\ \A id \in Range(input_ports) : ~handles[id].closed
          /\ \A id \in Range(last.prev_in) :
                handles[id].closeCalls = 1 /\ id \notin Range(input_ports)
          /\ output_ports = last.prev_out
    /\ last.op = "open_outputs" =>
          /\ NamesOf(handles, output_ports)
                = OpenedNames(last.names, last.openable)
          /\ \A id \in Range(output_ports) : ~handles[id].closed
          /\ \A id \in Range(last.prev_out) :
                handles[id].closeCalls = 1 /\ id \notin Range(output_ports)
          /\ input_ports = last.prev_in

\* C4: after open_inputs (open_outputs), every name of the list that can be
\* opened is the name of an open port of the registry, whether or not some
\* other name of the list failed to open.
C4_FailureDoesNotAbort ==
    /\ last.op = "open_inputs" =>
          \A n \in Range(last.names) \cap last.openable :
             \E id \in Range(input_ports) :
                handles[id].name = n /\ ~handles[id].closed
    /\ last.op = "open_outputs" =>
          \A n \in Range(last.names) \cap last.openable :
             \E id \in Range(output_ports) :
                handles[id].name = n /\ ~handles[id].closed

\* C5: every handle ever opened is held by the registry or has had close
\* called on it, and a name is opened again only after close was called on
\* the handle opened for it before.
C5_NoHandleLeak ==
    /\ \A id \in DOMAIN handles :
          \/ id \in Range(input_ports) \cup Range(output_ports)
          \/ handles[id].closeCalls >= 1
    /\ \A i \in DOMAIN handles, j \in DOMAIN handles :
          (i < j /\ handles[i].name = handles[j].name
                 /\ handles[i].dir = handles[j].dir)
             => handles[i].closeCalls >= 1

\* every port a close call found open had close called on it once, and is
\* closed unless its close raised
AllCloseCalled(ports, raising) ==
    \A id \in Range(ports) :
       /\ handles[id].closeCalls = 1
       /\ id \notin raising => handles[id].closed

\* C6: close_inputs, close_outputs and close never raise, close every port
\* they find open even when the close of another port raises, leave no open
\* port of their direction and no multiplexed handle, and a second call
\* changes nothing.
C6_CloseIdempotent ==
    /\ last.op = "close_inputs" =>
          /\ ~last.raised
          /\ input_ports = <<>> /\ multi_in = None
          /\ AllCloseCalled(last.prev_in, last.raising)
          /\ \A raising \in SUBSET DOMAIN handles :
                close_inputs(handles, input_ports, raising)
                   = [handles |-> handles, input_ports |-> input_ports,
                      multi_in |-> multi_in, raised |-> FALSE]
    /\ last.op = "close_outputs" =>
          /\ ~last.raised
          /\ output_ports = <<>>
          /\ AllCloseCalled(last.prev_out, last.raising)
          /\ \A raising \in SUBSET DOMAIN handles :
                close_outputs(handles, output_ports, raising)
                   = [handles |-> handles, output_ports |-> output_ports,
                      raised |-> FALSE]
    /\ last.op = "close" =>
          /\ ~last.raised
          /\ input_ports = <<>> /\ multi_in = None /\ output_ports = <<>>
          /\ AllCloseCalled(last.prev_in \o last.prev_out, last.raising)
          /\ \A raising \in SUBSET DOMAIN handles :
                close(handles, input_ports, output_ports, raising)
                   = [handles |-> handles, input_ports |-> input_ports,
                      multi_in |-> multi_in, output_ports |-> output_ports,
                      raised |-> FALSE]

\* close_inputs ran on two open inputs and the close of the first raised
C6_Witness ==
    /\ last.op = "close_inputs"
    /\ Len(last.prev_in) = 2
    /\ last.raising = {last.prev_in[1]}
    /\ handles[last.prev_in[2]].closed

\* C7: send_event never raises and appends the message to every open output
\* whose send does not fail, whatever the other outputs do.
C7_SendToEveryOutput ==
    last.op = "send_event" =>
       /\ ~last.raised
       /\ output_ports = last.prev_out
       /\ \A id \in Range(output_ports) :
             (id \notin last.raising /\ ~handles[id].closed) =>
                /\ handles[id].sent # <<>>
                /\ handles[id].sent[Len(handles[id].sent)] = last.message

\* send_event ran on two outputs, the first failed, the second was written
C7_Witness ==
    /\ last.op = "send_event"
    /\ Len(output_ports) = 2
    /\ last.raising = {output_ports[1]}
    /\ handles[output_ports[2]].sent = <<last.message>>

MessagesOf(events) == {events[i].message : i \in DOMAIN events}

\* C8: a blocking read_events does not wait once an open input holds a
\* message, and what it returns is not empty and is every message that any
\* open input held when it returned, each once.
C8_BurstCapture ==
    /\ (last.op = "read_events" /\ ~last.non_blocking
           /\ last.prev_in # <<>>) =>
          /\ last.status = "return"
          /\ last.events # <<>>
          /\ MessagesOf(last.events) = last.pending_before
          /\ Len(last.events) = Cardinality(last.pending_before)
    /\ PendingOn(handles, input_ports) # {} =>
          /\ Ready(handles, multi_in) # {}
          /\ \A pick \in Ready(handles, multi_in) :
                LET r == read_events(handles, input_ports, multi_in, FALSE,
                                     pick)
                IN /\ r.status = "return"
                   /\ PendingOn(r.handles, input_ports) = {}

\* a blocking read returned two messages that came from two inputs
C8_Witness ==
    /\ last.op = "read_events" /\ ~last.non_blocking
    /\ Len(last.prev_in) = 2
    /\ Len(last.events) = 2
    /\ last.events[2].port_name # NoName
    /\ \E i \in DOMAIN handles :
          /\ handles[i].name # last.events[2].port_name
          /\ handles[i].dir = "in"
          /\ i \in Range(input_ports)
          /\ handles[i].pending = <<>>

\* C9: read_events(non_blocking=True) with no open input returns, and
\* returns no event.
C9_NonBlockingEmpty ==
    /\ (last.op = "read_events" /\ last.non_blocking
           /\ last.prev_in = <<>>) =>
          last.status = "return" /\ last.events = <<>>
    /\ input_ports = <<>> =>
          read_events(handles, input_ports, multi_in, TRUE, 0)
             = [status |-> "return", handles |-> handles, events |-> <<>>]

\* a non-blocking read ran with no open input while a device handle that
\* the registry no longer holds had a message
C9_Witness ==
    /\ last.op = "read_events" /\ last.non_blocking
    /\ last.prev_in = <<>>
    /\ input_ports = <<>>
    /\ \E id \in DOMAIN handles : handles[id].pending # <<>>

(***************************************************************************)
(* Claims about the engine.                                                *)
(***************************************************************************)
IsPrefix(a, b) == Len(a) <= Len(b) /\ a = SubSeq(b, 1, Len(a))

\* the messages of thread t that output o holds, in the order written
WrittenBy(t, o) ==
    SelectSeq(handles[o].sent,
              LAMBDA m : m \in MessagesOf(threads[t].ret))

\* the messages thread t handed to send_event whose write on o did not fail
ExpectedOn(t, o) ==
    SelectSeq([k \in DOMAIN threads[t].fwd |-> threads[t].fwd[k].message],
              LAMBDA m : <<m, o>> \notin threads[t].failed)

\* C1: what a loop thread handed to send_event is, in order, what its
\* blocking reads returned: all of it between batches, all before the
\* current event inside a batch, whether or not the observer raised; and
\* every open output holds these messages in that order, but for the writes
\* that failed.
C1_ForwardInOrder ==
    \A t \in Threads :
       LET th == threads[t]
       IN /\ IsPrefix(th.fwd, th.ret)
          /\ th.pc \in {"while", "read", "done"} => th.fwd = th.ret
          /\ th.pc \in {"callback", "send"} =>
                /\ th.i \in DOMAIN th.events
                /\ Len(th.fwd) + (Len(th.events) - th.i + 1) = Len(th.ret)
                /\ th.events[th.i] = th.ret[Len(th.fwd) + 1]
          /\ \A o \in Range(output_ports) :
                WrittenBy(t, o) = ExpectedOn(t, o)

\* a running loop forwarded a batch of two events to both outputs while the
\* observer raised on every call
C1_Witness ==
    \E t \in Threads :
       /\ _running
       /\ threads[t].pc = "while"
       /\ Len(threads[t].fwd) = 2
       /\ threads[t].cbRaised
       /\ threads[t].failed = {}
       /\ Len(output_ports) = 2
       /\ \A o \in Range(output_ports) :
             handles[o].sent = <<threads[t].fwd[1].message,
                                 threads[t].fwd[2].message>>

\* C2: every message a device produced is still pending on its handle or
\* was returned to a loop thread by read_events; every returned event was
\* handed to send_event or is an event of the batch the thread is in and
\* not yet reached; a thread that has ended has handed over every event it
\* was returned.
C2_NoEventDropped ==
    /\ \A m \in 1..nmsg :
          \/ \E id \in DOMAIN handles : m \in Range(handles[id].pending)
          \/ \E t \in Threads : m \in MessagesOf(threads[t].ret)
    /\ \A t \in Threads :
          LET th == threads[t]
              rest == IF th.pc \in {"callback", "send"}
                      THEN {th.events[j].message :
                               j \in {k \in DOMAIN th.events : k >= th.i}}
                      ELSE {}
          IN /\ MessagesOf(th.ret) \ MessagesOf(th.fwd) \subseteq rest
             /\ th.pc = "done" => MessagesOf(th.fwd) = MessagesOf(th.ret)

\* stop() cleared the flag while a thread was inside a batch of two events,
\* and the thread ended, before stop() returned, after handing over both
C2_Witness ==
    \E t \in Threads, c \in Callers :
       /\ callers[c].pc = "stop_join"
       /\ t \in callers[c].midBatch
       /\ threads[t].pc = "done"
       /\ Len(threads[t].ret) = 2
       /\ threads[t].fwd = threads[t].ret
       /\ ~_running

\* C10: the start() calls made with no stop() in between start at most one
\* loop thread.
C10_OneLoop ==
    Cardinality({t \in Threads : threads[t].sinceStop
                                    /\ threads[t].pc # "new"}) <= 1

(***************************************************************************)
(* C11: stop() on an engine that was never started is a no-op: it returns  *)
(* without joining any thread, leaves the engine stopped with no thread,   *)
(* and leaves the port registry and its ports as they were.                *)
(***************************************************************************)
C11_StopNeverStarted ==
    [][\A c \in Callers :
          (/\ _thread = 0
           /\ ~_running
           /\ StopCall(c) \/ StopJoin(c))
          => /\ ~_running'
             /\ _thread' = 0
             /\ threads' = threads
             /\ UNCHANGED <<handles, input_ports, output_ports, multi_in>>
             /\ StopJoin(c) => callers'[c].join = "none"]_vars

\* stop() has returned on an engine that no start() ever touched
C11_Witness ==
    \E c \in Callers :
       /\ callers[c].pc = "idle"
       /\ callers[c].join = "none"
       /\ threads = <<>>
       /\ _thread = 0
       /\ ~_running

(***************************************************************************)
(* C12: stop() always returns to its caller: once it has cleared the       *)
(* running flag nothing can keep it from returning, not even a loop that   *)
(* stays blocked in a read; a stop() that returned on the timeout left the *)
(* flag cleared and the loop thread unfinished.                            *)
(***************************************************************************)
C12_StopReturns ==
    \A c \in Callers :
       /\ callers[c].pc = "stop_join"
             => ~_running /\ ENABLED StopJoin(c)
       /\ (callers[c].pc = "idle" /\ callers[c].join = "timeout" /\ ~_running)
             => _thread # 0

\* stop() has returned while the loop is still blocked in a read with no
\* message on any input
C12_Witness ==
    \E c \in Callers :
       /\ callers[c].pc = "idle"
       /\ callers[c].join = "timeout"
       /\ ~_running
       /\ _thread # 0
       /\ threads[_thread].pc = "read"
       /\ input_ports # <<>>
       /\ Ready(handles, multi_in) = {}


(***************************************************************************)
(* The steps of the configuration store.  One thread at a time loads or    *)
(* saves; the process may die at any point of a save, and the next process *)
(* finds the files as they were left.  The registry and the engine stay as *)
(* they are.                                                               *)
(***************************************************************************)
idleVars == <<handles, input_ports, output_ports, multi_in, nmsg, nsend,
              last, _running, _thread, threads, callers, main, tuiVars>>

\* the presentation layer stores the lists the user selected
SetConfig ==
    \E c \in Configs :
       /\ save.pc = "idle"
       /\ cfg' = c
       /\ UNCHANGED <<disk, save, loaded, saved, idleVars>>

\* load_config()
Load ==
    /\ save.pc = "idle"
    /\ LET r == load_config(disk[ConfigPath])
       IN  loaded' = [op |-> "load", file |-> disk[ConfigPath],
                      raised |-> r.raised, cfg |-> r.cfg, of |-> saved]
    /\ UNCHANGED <<disk, cfg, save, saved, idleVars>>

\* save_config(cfg) up to the text to write: mkdir, data, safe_dump
SaveBegin ==
    /\ save.pc = "idle"
    /\ save' = [pc |-> "open", text |-> safe_dump(cfg), i |-> 0,
                prev |-> disk[ConfigPath], at |-> "", of |-> cfg]
    /\ UNCHANGED <<disk, cfg, loaded, saved, idleVars>>

\* tmp.write_text(...): the file is opened for writing, which empties it
SaveOpen ==
    /\ save.pc = "open"
    /\ disk' = [disk EXCEPT ![with_suffix(ConfigPath)] = TextFile(<<>>)]
    /\ save' = [save EXCEPT !.pc = "write"]
    /\ UNCHANGED <<cfg, loaded, saved, idleVars>>

\* tmp.write_text(...): the text reaches the file piece by piece
SaveWrite ==
    /\ save.pc = "write"
    /\ LET tmp == with_suffix(ConfigPath)
       IN  disk' = [disk EXCEPT
                      ![tmp] = TextFile(Append(disk[tmp].text,
                                               save.text[save.i + 1]))]
    /\ save' = [save EXCEPT
                  !.i = @ + 1,
                  !.pc = IF save.i + 1 = Len(save.text) THEN "replace"
                         ELSE "write"]
    /\ UNCHANGED <<cfg, loaded, saved, idleVars>>

\* tmp.replace(p): the rename is atomic
SaveReplace ==
    /\ save.pc = "replace"
    /\ LET tmp == with_suffix(ConfigPath)
       IN  disk' = IF tmp = ConfigPath THEN disk
                   ELSE [disk EXCEPT ![ConfigPath] = disk[tmp],
                                     ![tmp] = NoFile]
    /\ save' = [save EXCEPT !.pc = "idle"]
    /\ saved' = << save.of >>
    /\ UNCHANGED <<cfg, loaded, idleVars>>

\* the process dies inside save_config; the next process starts
Crash ==
    /\ save.pc \in {"open", "write", "replace"}
    /\ save' = [save EXCEPT !.pc = "idle", !.at = save.pc]
    /\ UNCHANGED <<disk, cfg, loaded, saved, idleVars>>

\* MidiIO() and Engine(...) as constructed, no port opened; the file is
\* absent or holds what somebody put there, and no temporary file is left
InitConfig ==
    /\ handles = <<>>
    /\ input_ports = <<>>
    /\ output_ports = <<>>
    /\ multi_in = None
    /\ nmsg = 0
    /\ nsend = 0
    /\ last = NoCall
    /\ InitEngine(MainThread)
    /\ \E f \in UserFiles :
          disk = [x \in {ConfigPath, TmpPath} |->
                    IF x = ConfigPath THEN f ELSE NoFile]
    /\ cfg = [inputs |-> <<>>, outputs |-> <<>>]
    /\ save = IdleSave
    /\ loaded = NoLoad
    /\ saved = <<>>
    /\ main = NoMain
    /\ InitTui

NextConfig ==
    \/ SetConfig
    \/ Load
    \/ SaveBegin
    \/ SaveOpen
    \/ SaveWrite
    \/ SaveReplace
    \/ Crash

SpecConfig == InitConfig /\ [][NextConfig]_vars

(***************************************************************************)
(* C13: the configuration file is at every moment either the previous      *)
(* complete version or the new complete version: while save_config runs,   *)
(* and after a process died anywhere inside it, the file is what it was    *)
(* when the call began, and once a save completed the file is the complete *)
(* text of the last completed save.                                        *)
(***************************************************************************)
C13_AtomicSave ==
    /\ (save.pc \in {"open", "write", "replace"} \/ save.at # "")
          => disk[ConfigPath] = save.prev
    /\ saved # <<>> => disk[ConfigPath] = TextFile(safe_dump(saved[1]))
    /\ saved = <<>> => disk[ConfigPath] \in UserFiles

\* the process died between the write of the temporary file and the rename:
\* the temporary file is complete, the file still holds its other, earlier
\* text
C13_Witness ==
    /\ save.pc = "idle"
    /\ save.at = "replace"
    /\ disk[TmpPath] = TextFile(save.text)
    /\ disk[ConfigPath] = save.prev
    /\ save.prev.exists
    /\ save.prev.readable
    /\ save.prev.text # <<>>
    /\ save.prev.text # save.text

(***************************************************************************)
(* C14: load_config never raises: it returns a Config whatever the file    *)
(* holds, and the zero-value Config when the file does not exist or cannot *)
(* be read.                                                                *)
(***************************************************************************)
C14_LoadNeverRaises ==
    loaded.op = "load"
       => /\ ~loaded.raised
          /\ ~(loaded.file.exists /\ loaded.file.readable)
                => loaded.cfg = ZeroConfig

(***************************************************************************)
(* C15: load_config after a completed save_config(c) returns a Config      *)
(* equal to c: the same lists of the same strings, empty lists included.   *)
(***************************************************************************)
C15_RoundTrip ==
    (loaded.op = "load" /\ loaded.of # <<>>)
       => /\ ~loaded.raised
          /\ loaded.cfg = Py(loaded.of[1])

\* a Config with a name that reads as a number and an empty list came back
C15_Witness ==
    /\ loaded.op = "load"
    /\ loaded.of # <<>>
    /\ loaded.of[1].inputs = << "1" >>
    /\ loaded.of[1].outputs = <<>>
    /\ loaded.cfg = Py(loaded.of[1])

(***************************************************************************)
(* The program (main.py).  main() runs on the main thread; _shutdown, the  *)
(* handler of SIGINT and SIGTERM, runs on the same thread on top of        *)
(* whatever that thread was doing, so the thread is a stack of frames, the *)
(* frame of main() at the bottom.  An exception leaves the frames of       *)
(* _shutdown and reaches main(): inside the try block it runs the finally  *)
(* block and goes on from there, anywhere else it ends the process.  The   *)
(* loop thread runs Engine._run.                                           *)
(***************************************************************************)
Frame(fn, pc) == [fn |-> fn, pc |-> pc]

\* the thread is in function fn at pc
At(fn, pc) ==
    main.frames # <<>> /\ main.frames[Len(main.frames)] = Frame(fn, pc)

\* the top frame moves to pc
Goto(pc) ==
    [main EXCEPT !.frames[Len(main.frames)].pc = pc]

\* the places of main() at which the handlers are installed
AfterInstall ==
    {"start", "start_set", "start_new", "start_thread", "tui",
     "stop", "join", "close", "save"}

\* an exception, or SystemExit, raised in the top frame
Raise(m, status) ==
    IF m.frames[1].pc = "tui"
    THEN [m EXCEPT !.frames = << Frame("main", "stop") >>, !.exc = status]
    ELSE [m EXCEPT !.frames = <<>>, !.status = status]

\* the lists of strings of a loaded Config
Unpy(c) == [inputs |-> [i \in 1..Len(c.inputs.v) |-> c.inputs.v[i].v],
            outputs |-> [i \in 1..Len(c.outputs.v) |-> c.outputs.v[i].v]]

\* the files after a whole save_config(c)
save_config(d, c) ==
    [d EXCEPT ![ConfigPath] = TextFile(safe_dump(c)),
              ![with_suffix(ConfigPath)] = NoFile]

mainFrame == <<nmsg, nsend, last, callers, save, loaded, tuiVars>>

\* cfg = load_config(); midi = MidiIO()
MainLoad ==
    /\ At("main", "load")
    /\ LET r == load_config(disk[ConfigPath])
       IN  IF r.raised
           THEN main' = Raise(main, "error") /\ cfg' = cfg
           ELSE main' = Goto("open_in") /\ cfg' = Unpy(r.cfg)
    /\ UNCHANGED <<handles, input_ports, output_ports, multi_in, _running,
                   _thread, threads, disk, saved, mainFrame>>

\* if cfg.midi.inputs: midi.open_inputs(cfg.midi.inputs)
MainOpenInputs ==
    /\ At("main", "open_in")
    /\ \E openable \in SUBSET Range(cfg.inputs) :
          LET r == open_inputs(handles, input_ports, cfg.inputs, openable, {})
          IN  IF cfg.inputs = <<>>
              THEN main' = Goto("open_out")
                   /\ UNCHANGED <<handles, input_ports, multi_in>>
              ELSE /\ handles' = r.handles
                   /\ input_ports' = r.input_ports
                   /\ multi_in' = r.multi_in
                   /\ main' = IF r.raised THEN Raise(main, "error")
                              ELSE Goto("open_out")
    /\ UNCHANGED <<output_ports, _running, _thread, threads, disk, cfg,
                   saved, mainFrame>>

\* if cfg.midi.outputs: midi.open_outputs(cfg.midi.outputs)
MainOpenOutputs ==
    /\ At("main", "open_out")
    /\ \E openable \in SUBSET Range(cfg.outputs) :
          LET r == open_outputs(handles, output_ports, cfg.outputs, openable,
                                {})
          IN  IF cfg.outputs = <<>>
              THEN main' = Goto("install")
                   /\ UNCHANGED <<handles, output_ports>>
              ELSE /\ handles' = r.handles
                   /\ output_ports' = r.output_ports
                   /\ main' = IF r.raised THEN Raise(main, "error")
                              ELSE Goto("install")
    /\ UNCHANGED <<input_ports, multi_in, _running, _thread, threads, disk,
                   cfg, saved, mainFrame>>

\* event_q, on_event, engine = Engine(...), signal.signal(..., _shutdown)
MainInstall ==
    /\ At("main", "install")
    /\ main' = Goto("start")
    /\ UNCHANGED <<regVars, _running, _thread, threads, disk, cfg, saved,
                   mainFrame>>

\* engine.start(): if self._running: return
MainStartCall ==
    /\ At("main", "start")
    /\ main' = Goto(IF _running THEN "tui" ELSE "start_set")
    /\ UNCHANGED <<regVars, _running, _thread, threads, disk, cfg, saved,
                   mainFrame>>

\* self._running = True
MainStartSet ==
    /\ At("main", "start_set")
    /\ _running' = TRUE
    /\ main' = Goto("start_new")
    /\ UNCHANGED <<regVars, _thread, threads, disk, cfg, saved, mainFrame>>

\* self._thread = threading.Thread(target=self._run, daemon=True)
MainStartNew ==
    /\ At("main", "start_new")
    /\ threads' = Append(threads, NewThread)
    /\ _thread' = Len(threads) + 1
    /\ main' = Goto("start_thread")
    /\ UNCHANGED <<regVars, _running, disk, cfg, saved, mainFrame>>

\* self._thread.start()
MainStartThread ==
    /\ At("main", "start_thread")
    /\ threads' = [threads EXCEPT ![_thread].pc = "while"]
    /\ main' = Goto("tui")
    /\ UNCHANGED <<regVars, _running, _thread, disk, cfg, saved, mainFrame>>

\* run_tui(...): the user selects ports; on_message stores the selection in
\* the Config, reopens the ports, and saves when asked to; what it raises is
\* swallowed
Select ==
    /\ At("main", "tui")
    /\ main.nsel < MaxSelects
    /\ main' = [main EXCEPT !.nsel = @ + 1]
    /\ \E sv \in BOOLEAN :
          \/ \E selected \in NameLists(InNames),
                openable \in SUBSET InNames :
                LET r == open_inputs(handles, input_ports, selected,
                                     openable \cap Range(selected), {})
                IN  /\ Len(handles) + Len(selected) <= MaxHandles
                    /\ cfg' = [cfg EXCEPT !.inputs = selected]
                    /\ handles' = r.handles
                    /\ input_ports' = r.input_ports
                    /\ multi_in' = r.multi_in
                    /\ UNCHANGED output_ports
                    /\ IF sv /\ ~r.raised
                       THEN disk' = save_config(disk, cfg')
                            /\ saved' = << cfg' >>
                       ELSE UNCHANGED <<disk, saved>>
          \/ \E selected \in NameLists(OutNames),
                openable \in SUBSET OutNames :
                LET r == open_outputs(handles, output_ports, selected,
                                      openable \cap Range(selected), {})
                IN  /\ Len(handles) + Len(selected) <= MaxHandles
                    /\ cfg' = [cfg EXCEPT !.outputs = selected]
                    /\ handles' = r.handles
                    /\ output_ports' = r.output_ports
                    /\ UNCHANGED <<input_ports, multi_in>>
                    /\ IF sv /\ ~r.raised
                       THEN disk' = save_config(disk, cfg')
                            /\ saved' = << cfg' >>
                       ELSE UNCHANGED <<disk, saved>>
    /\ UNCHANGED <<_running, _thread, threads, mainFrame>>

\* run_tui(...) returns: the user quit
Quit ==
    /\ At("main", "tui")
    /\ main' = Goto("stop")
    /\ UNCHANGED <<regVars, _running, _thread, threads, disk, cfg, saved,
                   mainFrame>>

\* a signal is delivered while the handlers are installed
Signal ==
    /\ main.frames # <<>>
    /\ main.frames[1].pc \in AfterInstall
    /\ main.nsig < MaxSignals
    /\ main' = [main EXCEPT !.frames = Append(@, Frame("_shutdown", "stop")),
                            !.nsig = @ + 1]
    /\ UNCHANGED <<regVars, _running, _thread, threads, disk, cfg, saved,
                   mainFrame>>

\* engine.stop(): self._running = False
ShutStop ==
    \E fn \in {"main", "_shutdown"} :
       /\ At(fn, "stop")
       /\ _running' = FALSE
       /\ main' = [Goto("join") EXCEPT !.log = Append(@, "stop")]
       /\ UNCHANGED <<regVars, _thread, threads, disk, cfg, saved, mainFrame>>

\* engine.stop(): if self._thread: self._thread.join(timeout=2.0)
ShutJoin ==
    \E fn \in {"main", "_shutdown"} :
       /\ At(fn, "join")
       /\ main' = IF _thread # 0 /\ Join(_thread) = "raised"
                  THEN Raise(main, "error")
                  ELSE Goto("close")
       /\ UNCHANGED <<regVars, _running, _thread, threads, disk, cfg, saved,
                      mainFrame>>

\* midi.close()
ShutClose ==
    \E fn \in {"main", "_shutdown"} :
       /\ At(fn, "close")
       /\ LET r == close(handles, input_ports, output_ports, {})
          IN  /\ handles' = r.handles
              /\ input_ports' = r.input_ports
              /\ multi_in' = r.multi_in
              /\ output_ports' = r.output_ports
       /\ main' = [Goto("save") EXCEPT !.log = Append(@, "close")]
       /\ UNCHANGED <<_running, _thread, threads, disk, cfg, saved, mainFrame>>

\* save_config(cfg); after it main() returns, with the exception the
\* finally block was entered with
ShutSave ==
    \E fn \in {"main", "_shutdown"} :
       /\ At(fn, "save")
       /\ disk' = save_config(disk, cfg)
       /\ saved' = << cfg >>
       /\ main' = IF fn = "main"
                  THEN [main EXCEPT
                          !.frames = <<>>,
                          !.status = IF main.exc = "" THEN "0" ELSE main.exc,
                          !.log = Append(@, "save")]
                  ELSE [Goto("exit") EXCEPT !.log = Append(@, "save")]
       /\ UNCHANGED <<regVars, _running, _thread, threads, cfg, mainFrame>>

\* sys.exit(0)
HandlerExit ==
    /\ At("_shutdown", "exit")
    /\ main' = Raise(main, "0")
    /\ UNCHANGED <<regVars, _running, _thread, threads, disk, cfg, saved,
                   mainFrame>>

\* the files a previous run of the program left
StartConfigs == {[inputs |-> << "A" >>, outputs |-> << "O" >>]}

InitMain ==
    /\ handles = <<>>
    /\ input_ports = <<>>
    /\ output_ports = <<>>
    /\ multi_in = None
    /\ nmsg = 0
    /\ nsend = 0
    /\ last = NoCall
    /\ InitEngine({})
    /\ \E f \in {NoFile} \cup {TextFile(safe_dump(c)) : c \in StartConfigs} :
          disk = [x \in {ConfigPath, TmpPath} |->
                    IF x = ConfigPath THEN f ELSE NoFile]
    /\ cfg = [inputs |-> <<>>, outputs |-> <<>>]
    /\ save = IdleSave
    /\ loaded = NoLoad
    /\ saved = <<>>
    /\ main = [NoMain EXCEPT !.frames = << Frame("main", "load") >>]
    /\ InitTui

NextMain ==
    \/ MainLoad
    \/ MainOpenInputs
    \/ MainOpenOutputs
    \/ MainInstall
    \/ MainStartCall
    \/ MainStartSet
    \/ MainStartNew
    \/ MainStartThread
    \/ Select
    \/ Quit
    \/ Signal
    \/ ShutStop
    \/ ShutJoin
    \/ ShutClose
    \/ ShutSave
    \/ HandlerExit
    \/ RunWhile
    \/ RunRead

SpecMain == InitMain /\ [][NextMain]_vars

\* the process has ended
Exited == main.frames = <<>> /\ main.status # ""

\* the three shutdown steps were performed in their order
InOrder(steps) ==
    \E i, j, k \in 1..Len(steps) :
       /\ i < j /\ j < k
       /\ steps[i] = "stop" /\ steps[j] = "close" /\ steps[k] = "save"

\* every port of the registry is closed and the file holds the Config
ClosedAndSaved ==
    /\ input_ports = <<>>
    /\ output_ports = <<>>
    /\ multi_in = None
    /\ disk[ConfigPath] = TextFile(safe_dump(cfg))

(***************************************************************************)
(* C16: a shutdown runs its steps in the order stop, close, save, and a    *)
(* step that fails does not keep the later ones from running: whenever the *)
(* process has ended after a shutdown began, all three steps were          *)
(* performed in that order, the registry holds no port and the file holds  *)
(* the Config.                                                             *)
(***************************************************************************)
C16_ShutdownBestEffort ==
    (Exited /\ main.log # <<>>) => (InOrder(main.log) /\ ClosedAndSaved)

(***************************************************************************)
(* C17: a signal delivered at any point after the handlers are installed   *)
(* leads to the shutdown steps in their order and to an exit with status   *)
(* 0, and the steps the finally block of main() then repeats leave the     *)
(* ports closed and the file as saved.                                     *)
(***************************************************************************)
C17_SignalShutdown ==
    (Exited /\ main.nsig > 0)
       => /\ main.status = "0"
          /\ InOrder(main.log)
          /\ ClosedAndSaved
          /\ saved = << cfg >>

(***************************************************************************)
(* The engine as main() wires it (main.py, lines 32-40, 51): the observer  *)
(* is on_event, which puts the event on event_q, and the engine is started *)
(* once.  Every message is remembered with the port it arrived on.         *)
(***************************************************************************)
wiredFrame == <<cfgVars, main, log, ui>>

\* a device delivers its next message to a handle that is open on it
Produce ==
    \E id \in DOMAIN handles :
        /\ nmsg < MaxMsgs
        /\ handles[id].dir = "in"
        /\ ~handles[id].closed
        /\ nmsg' = nmsg + 1
        /\ handles' = [handles EXCEPT ![id].pending = Append(@, nmsg + 1)]
        /\ origin' = Append(origin, handles[id].name)
        /\ UNCHANGED <<input_ports, output_ports, multi_in, nsend, last>>
        /\ UNCHANGED <<engVars, event_q, wiredFrame>>

\* self.event_callback(e) with on_event: event_q.put_nowait(e); the queue
\* has no size limit
LoopOnEvent ==
    \E t \in Threads :
       /\ threads[t].pc = "callback"
       /\ event_q' = Append(event_q, threads[t].events[threads[t].i])
       /\ threads' = [threads EXCEPT ![t].cbRaised = FALSE, ![t].pc = "send"]
       /\ UNCHANGED <<_running, _thread, callers>>
       /\ UNCHANGED <<handles, input_ports, output_ports, multi_in, nmsg,
                      nsend, last>>
       /\ UNCHANGED <<origin, wiredFrame>>

NextWired ==
    \/ Start
    \/ RunWhile
    \/ RunRead
    \/ LoopOnEvent
    \/ RunSend
    \/ Produce

SpecWired == InitEnginePorts /\ [][NextWired]_vars

(***************************************************************************)
(* C18: the events on the queue of the presentation layer are the events   *)
(* handed to the outputs, in the same order, and each carries the name of  *)
(* the input port its message arrived on, whichever kind of read returned  *)
(* it.                                                                     *)
(***************************************************************************)
C18_EndToEnd ==
    /\ \A t \in Threads :
          /\ IsPrefix(threads[t].fwd, event_q)
          /\ Len(event_q) <= Len(threads[t].fwd) + 1
    /\ \A i \in 1..Len(event_q) :
          event_q[i].port_name = origin[event_q[i].message]

(***************************************************************************)
(* The log of recent events of the TUI (tui.py, lines 75-90).  The loop    *)
(* thread puts events on the queue through on_event; the poller task takes *)
(* them off one at a time and pushes each on the ListView.  A poll that    *)
(* finds the queue empty sleeps and changes nothing.                       *)
(***************************************************************************)
\* the ListView keeps this many children
LogLimit == 300

logFrame == <<handles, input_ports, output_ports, multi_in, nsend, last,
              engVars, cfgVars, main, origin, ui>>

\* the text of the ListItem of an event: made of its message
Entry(e) == [text |-> e.message]

\* _push_event without the trim
_push_event_untrimmed(lv, e) == Append(lv, Entry(e))

\* _push_event: lv.append(...); if len(lv.children) > 300:
\*                                  lv.remove(lv.children[0])
_push_event(lv, e) ==
    LET children == Append(lv, Entry(e))
    IN  IF Len(children) > LogLimit THEN Tail(children) ELSE children

\* on_event(e) on the loop thread: event_q.put_nowait(e)
Emit ==
    /\ nmsg < MaxPush
    /\ Len(event_q) < MaxQueued
    /\ nmsg' = nmsg + 1
    /\ event_q' = Append(event_q, MidiEvent(nmsg + 1, NoName))
    /\ UNCHANGED <<log, logFrame>>

\* _poll_thread_queue: e = self.thread_queue.get_nowait();
\*                     await self._push_event(e)
Poll ==
    /\ event_q # <<>>
    /\ event_q' = Tail(event_q)
    /\ log' = _push_event(log, Head(event_q))
    /\ UNCHANGED <<nmsg, logFrame>>

NextLog ==
    \/ Emit
    \/ Poll

SpecLog == InitRegistry /\ [][NextLog]_vars

(***************************************************************************)
(* C20: after any number of pushes the log holds at most 300 entries, and  *)
(* they are the entries of the most recently pushed events, in the order   *)
(* the events arrived.                                                     *)
(***************************************************************************)
C20_BoundedLog ==
    LET polled == nmsg - Len(event_q)
        n == IF polled < LogLimit THEN polled ELSE LogLimit
    IN  /\ Len(log) <= LogLimit
        /\ log = [i \in 1..n |-> Entry(MidiEvent(polled - n + i, NoName))]

\* more events were pushed than the log keeps: the oldest are gone
C20_Witness ==
    /\ nmsg - Len(event_q) > LogLimit
    /\ Len(log) = LogLimit
    /\ log[1] = Entry(MidiEvent(nmsg - Len(event_q) - LogLimit + 1, NoName))
    /\ log[1].text > 1

(***************************************************************************)
(* The registry under both threads.  The presentation thread handles a     *)
(* port selection (tui.py, lines 96-112): it stores the selection in the   *)
(* Config and calls open_inputs, one step for each read or write of an     *)
(* attribute of the registry.  The loop thread runs Engine._run with       *)
(* read_events taken apart in the same way.  Nothing orders the steps of   *)
(* the two threads.                                                        *)
(***************************************************************************)
uiFrame == <<nmsg, nsend, last, engVars, save, loaded, main, event_q,
             origin, log>>

loopFrame == <<nmsg, nsend, last, _running, _thread, callers, appVars>>

\* where open_inputs is between its first and its last access to the
\* registry, and where read_events is between its first and its last
WritingPcs == {"close", "clear_in", "clear_mi", "open", "set_in", "set_mi"}

ReadingPcs == {"test_mi", "receive_call", "receive", "drain"}

\* on_message: self.config.midi.inputs = selected, then open_inputs is
\* called
UiSelect ==
    \E selected \in NameLists(InNames), sv \in BOOLEAN :
       /\ ui.pc = "idle"
       /\ Len(handles) + Len(selected) <= MaxHandles
       /\ cfg' = [cfg EXCEPT !.inputs = selected]
       /\ ui' = [pc |-> "close", names |-> selected, ports_list |-> <<>>,
                 save |-> sv]
       /\ UNCHANGED <<regVars, disk, saved, uiFrame>>

\* close_inputs: for p in self.input_ports: p.close()
UiClose ==
    /\ ui.pc = "close"
    /\ handles' = CloseEach(handles, input_ports, {})
    /\ ui' = [ui EXCEPT !.pc = "clear_in"]
    /\ UNCHANGED <<input_ports, output_ports, multi_in, cfg, disk, saved,
                   uiFrame>>

\* close_inputs: self.input_ports = []
UiClearInputs ==
    /\ ui.pc = "clear_in"
    /\ input_ports' = <<>>
    /\ ui' = [ui EXCEPT !.pc = "clear_mi"]
    /\ UNCHANGED <<handles, output_ports, multi_in, cfg, disk, saved,
                   uiFrame>>

\* close_inputs: self.multi_in = None
UiClearMulti ==
    /\ ui.pc = "clear_mi"
    /\ multi_in' = None
    /\ ui' = [ui EXCEPT !.pc = "open"]
    /\ UNCHANGED <<handles, input_ports, output_ports, cfg, disk, saved,
                   uiFrame>>

\* for n in names: ports_list.append(mido.open_input(n))
UiOpen ==
    /\ ui.pc = "open"
    /\ handles' = OpenEach(handles, ui.names, "in")
    /\ ui' = [ui EXCEPT !.pc = "set_in",
                        !.ports_list = NewIds(handles, ui.names)]
    /\ UNCHANGED <<input_ports, output_ports, multi_in, cfg, disk, saved,
                   uiFrame>>

\* self.input_ports = ports_list
UiSetInputs ==
    /\ ui.pc = "set_in"
    /\ input_ports' = ui.ports_list
    /\ ui' = [ui EXCEPT !.pc = "set_mi"]
    /\ UNCHANGED <<handles, output_ports, multi_in, cfg, disk, saved,
                   uiFrame>>

\* self.multi_in = MultiPort(ports_list) if ports_list else None; back in
\* on_message: if save and self.save_callback: self.save_callback(config)
UiSetMulti ==
    /\ ui.pc = "set_mi"
    /\ multi_in' = IF ui.ports_list # <<>> THEN MultiPort(ui.ports_list)
                   ELSE None
    /\ ui' = IdleUi
    /\ IF ui.save
       THEN disk' = save_config(disk, cfg) /\ saved' = << cfg >>
       ELSE UNCHANGED <<disk, saved>>
    /\ UNCHANGED <<handles, input_ports, output_ports, cfg, uiFrame>>

\* read_events: if not self.input_ports: return events
ReadTestInputs ==
    \E t \in Threads :
       /\ threads[t].pc = "read"
       /\ threads' = [threads EXCEPT
                        ![t].pc = IF input_ports = <<>> THEN "while"
                                  ELSE "test_mi"]
       /\ UNCHANGED <<regVars, loopFrame>>

\* if self.multi_in is None: return events
ReadTestMulti ==
    \E t \in Threads :
       /\ threads[t].pc = "test_mi"
       /\ threads' = [threads EXCEPT
                        ![t].pc = IF multi_in.none THEN "while"
                                  ELSE "receive_call"]
       /\ UNCHANGED <<regVars, loopFrame>>

\* self.multi_in.receive(): the attribute is read again; on None the call
\* raises, and nothing in _run catches what read_events raises
ReadReceiveCall ==
    \E t \in Threads :
       /\ threads[t].pc = "receive_call"
       /\ threads' = [threads EXCEPT
                        ![t].pc = IF multi_in.none THEN "dead" ELSE "receive",
                        ![t].mi = multi_in]
       /\ UNCHANGED <<regVars, loopFrame>>

\* receive() returns a message of one of the ports of the MultiPort it was
\* called on
ReadReceive ==
    \E t \in Threads :
       /\ threads[t].pc = "receive"
       /\ \E pick \in Ready(handles, threads[t].mi) :
             /\ handles' = [handles EXCEPT ![pick].pending = Tail(@)]
             /\ threads' = [threads EXCEPT
                   ![t].events = << MidiEvent(Head(handles[pick].pending),
                                              NoName) >>,
                   ![t].mi = None,
                   ![t].pc = "drain"]
       /\ UNCHANGED <<input_ports, output_ports, multi_in, loopFrame>>

\* for p in self.input_ports: for msg in p.iter_pending(): ...; return
ReadDrain ==
    \E t \in Threads :
       /\ threads[t].pc = "drain"
       /\ LET d == Drain(handles, input_ports, threads[t].events)
          IN  /\ handles' = d.handles
              /\ threads' = [threads EXCEPT
                    ![t].events = d.events,
                    ![t].i = 1,
                    ![t].ret = @ \o d.events,
                    ![t].pc = "callback"]
       /\ UNCHANGED <<input_ports, output_ports, multi_in, loopFrame>>

\* main() has opened the configured ports: one input or none, one output
InitReconf ==
    /\ \E ins \in {<<>>, <<"A">>}, outs \in {<<"O">>} :
          LET r == OpenConfigured(ins, outs)
          IN /\ handles = r.handles
             /\ input_ports = r.input_ports
             /\ multi_in = r.multi_in
             /\ output_ports = r.output_ports
    /\ nmsg = 0
    /\ nsend = 0
    /\ last = NoCall
    /\ InitEngine(MainThread)
    /\ InitApp

NextReconf ==
    \/ Start
    \/ RunWhile
    \/ ReadTestInputs
    \/ ReadTestMulti
    \/ ReadReceiveCall
    \/ ReadReceive
    \/ ReadDrain
    \/ RunCallback
    \/ RunSend
    \/ Inject
    \/ UiSelect
    \/ UiClose
    \/ UiClearInputs
    \/ UiClearMulti
    \/ UiOpen
    \/ UiSetInputs
    \/ UiSetMulti

SpecReconf == InitReconf /\ [][NextReconf]_vars

(***************************************************************************)
(* C19: the loop thread and the presentation thread share no mutable state *)
(* but the Config: the input list, the output list and the MultiPort of    *)
(* the registry are never written by one of them while the other is        *)
(* reading them, that is, open_inputs on the presentation thread and       *)
(* read_events on the loop thread are never in progress together.          *)
(***************************************************************************)
C19_NoSharedRegistry ==
    ~ /\ ui.pc \in WritingPcs
      /\ \E t \in Threads : threads[t].pc \in ReadingPcs

(***************************************************************************)
(* C21: the loop does no polling: read_events gives control back to the    *)
(* loop only with an event, so a loop with nothing to read, also one with  *)
(* no input open, stays inside the read instead of going round.            *)
(***************************************************************************)
C21_NoPolling ==
    [][\A t \in Threads :
          (threads[t].pc = "read" /\ threads'[t].pc # "read")
             => threads'[t].events # <<>>]_vars

\* the loop threads that are running _run: started and not yet returned
Live == {t \in Threads : threads[t].pc \notin {"new", "done"}}

(***************************************************************************)
(* C23: at most one loop thread is live at any time, whatever start() and  *)
(* stop() calls one caller makes, also a start() that follows a stop()     *)
(* whose join timed out.                                                   *)
(***************************************************************************)
C23_OneLiveLoop == Cardinality(Live) <= 1

(***************************************************************************)
(* C22: a loop thread that stop() has told to stop (the flag was cleared   *)
(* after the thread was made) leaves the loop at its next test of the      *)
(* flag: it ends and starts no other read.                                 *)
(***************************************************************************)
C22_ExitsAfterStop ==
    [][\A t \in Threads :
          (/\ threads[t].pc = "while"
           /\ ~threads[t].sinceStop
           /\ threads'[t].pc # "while")
             => threads'[t].pc = "done"]_vars

(***************************************************************************)
(* C24: once open_inputs has replaced the inputs, a loop that was          *)
(* suspended in the blocking read takes up the new inputs: whenever a      *)
(* message is pending on an input the registry holds open and the          *)
(* presentation thread is not inside a reconfiguration, the receive() the  *)
(* loop is suspended in can return, so the message is read and forwarded.  *)
(***************************************************************************)
C24_NewInputsRead ==
    \A t \in Threads :
       (/\ ui.pc = "idle"
        /\ threads[t].pc = "receive"
        /\ \E k \in 1..Len(input_ports) :
              /\ ~handles[input_ports[k]].closed
              /\ handles[input_ports[k]].pending # <<>>)
          => Ready(handles, threads[t].mi) # {}

(***************************************************************************)
(* C25: after a port selection handled by the TUI, whether the ports       *)
(* opened or not, the name list of the config equals, in each direction,   *)
(* the names of the ports the registry holds open.                         *)
(***************************************************************************)
C25_ConfigMatchesRegistry ==
    (At("main", "tui") /\ main.nsel > 0)
       => /\ cfg.inputs = NamesOf(handles, input_ports)
          /\ cfg.outputs = NamesOf(handles, output_ports)

=============================================================================
